---- MODULE Spec2Model ----
(***************************************************************************)
(* Model of linkedin_automation.py: the process-wide BrowserManager, the   *)
(* element locator (waitForElement, findConnectBtn), the connectivity      *)
(* probe (checkIfConnected) and the four request handlers doLogin,         *)
(* sendConnect, checkAndMessage and closeBrowser.                          *)
(*                                                                         *)
(* The handlers are "async def" bodies without any await, so each one runs *)
(* to completion on the event loop: one handler is one action.  What a     *)
(* handler did is recorded in op, outcome, trace, page, located and probe, *)
(* which describe the most recent call only.                               *)
(***************************************************************************)
EXTENDS Integers, Sequences, FiniteSets, TLC

VARIABLES
    browser,   \* browser_mgr.browser: None or the process it refers to
    live,      \* browser processes started by the service and still running
    jar,       \* cookies held by the browser, in get_cookies() order
    file,      \* cookies.json: whether it exists and the list it holds
    op,        \* handler of the most recent call
    outcome,   \* what that call returned or raised
    trace,     \* browser interactions of that call, in order
    page,      \* what the selectors queried by that call matched
    located,   \* selector whose element findConnectBtn returned in that call
    probe,     \* what checkIfConnected returned in that call
    req,       \* that call's request and what befell it from outside
    loginOk,   \* history: a Login returned ok and no Close was called since
    wait,      \* the polling of findConnectBtn, in poll ticks
    loop       \* the event loop: requests queued, in flight and running

vars == <<browser, live, jar, file, op, outcome, trace, page, located, probe, req,
          loginOk, wait, loop>>

----------------------------------------------------------------------------
(* Bounds                                                                  *)

MaxProcs == 2        \* browser processes that can run side by side
NumAccounts == 2     \* accounts of the site
MaxCookies == 2      \* cookies a browser holds when saveCookies is tried alone
MaxRequests == 3     \* requests the server is sent side by side

----------------------------------------------------------------------------
(* Values                                                                  *)

None == 0
Pids == 1..MaxProcs
Accounts == 1..NumAccounts
\* credentials: the account they open, or 0 when the site does not accept them
Creds == 0..NumAccounts
\* session tokens: the account they stand for, or 0 once the site has dropped them
Tokens == 0..NumAccounts

SessionCookie(v) == [name |-> "li_at", value |-> v]
LangCookie == [name |-> "lang", value |-> 0]

CsrfCookie == [name |-> "JSESSIONID", value |-> 0]
AllCookies == {SessionCookie(v) : v \in Tokens} \cup {LangCookie, CsrfCookie}

\* what get_cookies() can return: no two cookies of one name
Jars ==
    {cs \in UNION {[1..n -> AllCookies] : n \in 0..MaxCookies} :
        \A i, j \in 1..Len(cs) : cs[i].name = cs[j].name => i = j}

NoFile == [exists |-> FALSE, cookies |-> <<>>]
FileOf(cs) == [exists |-> TRUE, cookies |-> cs]

\* cookies.json as an earlier run of the service may have left it
InitialSnapshots ==
    {NoFile} \cup {FileOf(<<LangCookie, SessionCookie(v)>>) : v \in Tokens}

Status == {"absent", "hidden", "visible"}

ConnectSelectors == {"invite", "connectText", "connectClass"}
possible_selectors == <<"invite", "connectText", "connectClass">>
indicators == <<"firstDegree", "messageBtn", "statusBadge">>
LoginSelectors == {"username", "password", "submit"}
ConnectPageSelectors == ConnectSelectors \cup {"moreActions", "dropdownConnect", "sendNow"}
MessagePageSelectors == {"firstDegree", "messageBtn", "statusBadge", "textbox", "sendBtn"}
Selectors == LoginSelectors \cup ConnectPageSelectors \cup MessagePageSelectors

\* a page as one call sees it: selectors the call never queries are "unqueried"
NoPage == [s \in Selectors |-> "unqueried"]
PageOf(dom) == [s \in Selectors |-> IF s \in DOMAIN dom THEN dom[s] ELSE "unqueried"]

LoginPages == [LoginSelectors -> Status]
ConnectPages == [ConnectPageSelectors -> Status]
MessagePages == [MessagePageSelectors -> Status]

Ev(a, s) == [act |-> a, on |-> s]
NoReq == [creds |-> 0, fault |-> "none"]

Ok(msg) == [status |-> "ok", code |-> 200, message |-> msg]
Failed(c, msg) == [status |-> "failed", code |-> c, message |-> msg]
NoOutcome == [status |-> "none", code |-> 0, message |-> ""]

----------------------------------------------------------------------------
(* Cookies                                                                 *)

RECURSIVE WithoutName(_, _)
WithoutName(cs, n) ==
    IF cs = <<>> THEN <<>>
    ELSE IF Head(cs).name = n THEN WithoutName(Tail(cs), n)
         ELSE <<Head(cs)>> \o WithoutName(Tail(cs), n)

\* driver.add_cookie: a cookie of the same name is replaced
add_cookie(cs, c) == Append(WithoutName(cs, c.name), c)

HasCookie(cs, n) == \E i \in 1..Len(cs) : cs[i].name = n

\* the account the site takes the browser to be logged in as, None if none
AuthAs(cs) ==
    IF \E i \in 1..Len(cs) : cs[i].name = "li_at" /\ cs[i].value \in Accounts
    THEN (CHOOSE v \in Accounts : \E i \in 1..Len(cs) : cs[i] = SessionCookie(v))
    ELSE None

\* any page load of the site leaves its anonymous cookie in the browser
Visit(cs) == IF HasCookie(cs, "lang") THEN cs ELSE Append(cs, LangCookie)

----------------------------------------------------------------------------
(* BrowserManager                                                          *)

FreshPid(lv) == CHOOSE p \in Pids : p \notin lv

\* startBrowser: uc.Chrome() is assigned to self.browser before the
\* start-up script is injected; both steps can raise
startBrowser(b, lv, fault) ==
    IF fault = "launch"
    THEN [ok |-> FALSE, browser |-> b, live |-> lv]
    ELSE [ok |-> fault # "cdp", browser |-> FreshPid(lv), live |-> lv \cup {FreshPid(lv)}]

\* ensureStarted without its test of the handle
ensureStartedAnew(b, lv, fault) == startBrowser(b, lv, fault)

\* doLogin: "if not browser_mgr.browser: browser_mgr.startBrowser()"
ensureStarted(b, lv, fault) ==
    IF b = None THEN startBrowser(b, lv, fault)
    ELSE [ok |-> TRUE, browser |-> b, live |-> lv]

\* saveCookies with its test of the handle inverted
saveCookiesUnlessBrowser(b, cs, f) == IF b = None THEN FileOf(cs) ELSE f

\* saveCookies opening the file for appending
saveCookiesAppending(b, cs, f) == IF b # None THEN FileOf(f.cookies \o cs) ELSE f

\* saveCookies: overwrite the file with get_cookies(), when a browser is held
saveCookies(b, cs, f) == IF b # None THEN FileOf(cs) ELSE f

RECURSIVE AddAll(_, _)
AddAll(cs, new) ==
    IF new = <<>> THEN cs ELSE AddAll(add_cookie(cs, Head(new)), Tail(new))

\* loadCookies: add every cookie of the file, when file and browser exist
loadCookies(b, cs, f) == IF f.exists /\ b # None THEN AddAll(cs, f.cookies) ELSE cs

\* shutdown: quit, forget the handle, remove the file; nothing without handle
shutdown(b, lv, cs, f, fault, stillRuns) ==
    IF b = None
    THEN [ok |-> TRUE, browser |-> b, live |-> lv, jar |-> cs, file |-> f]
    ELSE IF fault = "quit"
    THEN [ok |-> FALSE, browser |-> b,
          live |-> IF stillRuns THEN lv ELSE lv \ {b},
          jar |-> IF stillRuns THEN cs ELSE <<>>, file |-> f]
    ELSE IF f.exists /\ fault = "io"
    THEN [ok |-> FALSE, browser |-> None, live |-> lv \ {b}, jar |-> <<>>, file |-> f]
    ELSE [ok |-> TRUE, browser |-> None, live |-> lv \ {b}, jar |-> <<>>, file |-> NoFile]

----------------------------------------------------------------------------
(* Locator and probe                                                       *)

\* waitForElement: presence only; TRUE when the element is returned,
\* FALSE when HTTPException(404) is raised
waitForElement(dom, sel) == dom[sel] # "absent"

\* click, send_keys, clear and pointer moves need a displayed element
Interactable(dom, sel) == dom[sel] = "visible"

\* the direct strategies without the is_displayed() test
RECURSIVE DirectFromPresent(_, _)
DirectFromPresent(dom, i) ==
    IF i > Len(possible_selectors) THEN "none"
    ELSE IF waitForElement(dom, possible_selectors[i]) THEN possible_selectors[i]
         ELSE DirectFromPresent(dom, i + 1)

\* the direct strategies of findConnectBtn from position i on
RECURSIVE DirectFrom(_, _)
DirectFrom(dom, i) ==
    IF i > Len(possible_selectors) THEN "none"
    ELSE IF waitForElement(dom, possible_selectors[i])
            /\ dom[possible_selectors[i]] = "visible"
         THEN possible_selectors[i]
         ELSE DirectFrom(dom, i + 1)

\* findConnectBtn giving up after the direct strategies
MenuFallbackMissing(dom) == [found |-> FALSE, el |-> "none", events |-> <<>>]

\* the "More actions" fallback of findConnectBtn
MenuFallback(dom) ==
    IF ~waitForElement(dom, "moreActions")
    THEN [found |-> FALSE, el |-> "none", events |-> <<>>]
    ELSE IF ~Interactable(dom, "moreActions")
    THEN [found |-> FALSE, el |-> "none", events |-> <<>>]
    ELSE IF ~waitForElement(dom, "dropdownConnect")
    THEN [found |-> FALSE, el |-> "none", events |-> <<Ev("click", "moreActions")>>]
    ELSE [found |-> TRUE, el |-> "dropdownConnect", events |-> <<Ev("click", "moreActions")>>]

findConnectBtn(dom) ==
    IF DirectFrom(dom, 1) # "none"
    THEN [found |-> TRUE, el |-> DirectFrom(dom, 1), events |-> <<>>]
    ELSE MenuFallback(dom)

\* the loop of checkIfConnected without its try/except
IndicatorUnguarded(dom, i) ==
    IF waitForElement(dom, indicators[i])
    THEN [raised |-> FALSE, connected |-> TRUE]
    ELSE [raised |-> TRUE, connected |-> FALSE]

\* checkIfConnected ending in "return True"
checkIfConnectedByDefault(dom) == [raised |-> FALSE, connected |-> TRUE]

\* the loop of checkIfConnected from indicator i on: a waitForElement that
\* raises is caught and the loop goes on; nothing is raised to the caller
RECURSIVE IndicatorFrom(_, _)
IndicatorFrom(dom, i) ==
    IF i > Len(indicators) THEN [raised |-> FALSE, connected |-> FALSE]
    ELSE IF waitForElement(dom, indicators[i])
         THEN [raised |-> FALSE, connected |-> TRUE]
         ELSE IndicatorFrom(dom, i + 1)

checkIfConnected(dom) == IndicatorFrom(dom, 1)

RelationshipState(connected) == IF connected THEN "Connected" ELSE "NotConnected"

----------------------------------------------------------------------------
(* Pages as a handler sees them.  A handler stops querying once its        *)
(* control flow is decided, so two pages that agree on the selectors it    *)
(* queries are the same input to it; the handlers draw one page per class, *)
(* with the selectors they never reach marked "unqueried".                 *)

View(dom, Q) == [s \in DOMAIN dom |-> IF s \in Q THEN dom[s] ELSE "unqueried"]

\* selectors the loop over the direct strategies reaches, from position i on
RECURSIVE DirectQueried(_, _)
DirectQueried(dom, i) ==
    IF i > Len(possible_selectors) THEN {}
    ELSE {possible_selectors[i]}
         \cup (IF dom[possible_selectors[i]] = "visible" THEN {}
               ELSE DirectQueried(dom, i + 1))

ConnectQueried(dom) ==
    DirectQueried(dom, 1)
    \cup (IF DirectFrom(dom, 1) = "none" THEN {"moreActions"} ELSE {})
    \cup (IF DirectFrom(dom, 1) = "none" /\ dom["moreActions"] = "visible"
          THEN {"dropdownConnect"} ELSE {})
    \cup (IF findConnectBtn(dom).found /\ Interactable(dom, findConnectBtn(dom).el)
          THEN {"sendNow"} ELSE {})

\* selectors a chain of wait-then-act steps reaches
RECURSIVE ActQueried(_, _)
ActQueried(dom, sels) ==
    IF sels = <<>> THEN {}
    ELSE {Head(sels)}
         \cup (IF dom[Head(sels)] = "visible" THEN ActQueried(dom, Tail(sels)) ELSE {})

RECURSIVE IndicatorsQueried(_, _)
IndicatorsQueried(dom, i) ==
    IF i > Len(indicators) THEN {}
    ELSE {indicators[i]}
         \cup (IF dom[indicators[i]] # "absent" THEN {}
               ELSE IndicatorsQueried(dom, i + 1))

MessageQueried(dom) ==
    IndicatorsQueried(dom, 1)
    \cup (IF checkIfConnected(dom).connected
          THEN ActQueried(dom, <<"messageBtn", "textbox", "sendBtn">>) ELSE {})

LoginQueried(dom) == ActQueried(dom, <<"username", "password", "submit">>)

LoginViews == {View(d, LoginQueried(d)) : d \in LoginPages}
ConnectViews == {View(d, ConnectQueried(d)) : d \in ConnectPages}
MessageViews == {View(d, MessageQueried(d)) : d \in MessagePages}

----------------------------------------------------------------------------
(* Handlers.  "\E x \in {e} :" names the value of e, computed once.        *)

\* wait for each selector of sels in turn and act on its element; stops at
\* the first one that is missing or cannot be interacted with
RECURSIVE ActOn(_, _, _)
ActOn(dom, sels, acts) ==
    IF sels = <<>> THEN [ok |-> TRUE, events |-> <<>>]
    ELSE IF ~(waitForElement(dom, Head(sels)) /\ Interactable(dom, Head(sels)))
    THEN [ok |-> FALSE, events |-> <<>>]
    ELSE LET rest == ActOn(dom, Tail(sels), Tail(acts))
         IN  [ok |-> rest.ok, events |-> <<Ev(Head(acts), Head(sels))>> \o rest.events]

\* what can go wrong outside the service during one call
LoginFaults == {"none", "launch", "cdp", "get", "save"}
ConnectFaults == {"none", "get", "save"}
MessageFaults == {"none", "get"}
CloseFaults == {"none", "quit", "io"}

LoginFailed == Failed(400, "Login didn't work, check credentials")
ConnectFailed == Failed(400, "Couldn't send connection request")
MessageFailed == Failed(400, "Something went wrong with messaging")
CloseFailed == Failed(500, "Couldn't close the browser")

\* browser.get(...): needs a running browser behind the handle
Navigates(s, fault) == s.ok /\ s.browser \in s.live /\ fault # "get"

\* the cookies of the browser behind the handle s leaves: none in a new one
JarOf(s) == IF s.browser # browser THEN <<>> ELSE jar
StartEvents(s) == IF s.browser # browser THEN <<Ev("start", "browser")>> ELSE <<>>

\* a handler's saveCookies() call: only reached when nothing raised before it
savedAlways(reached, b, cs, f) == saveCookies(b, cs, f)

savedIf(reached, b, cs, f) == IF reached THEN saveCookies(b, cs, f) ELSE f

\* the confirmation step of sendConnect without its try/except
confirmSendRequired(dom) ==
    IF waitForElement(dom, "sendNow") /\ Interactable(dom, "sendNow")
    THEN [ok |-> TRUE, events |-> <<Ev("click", "sendNow")>>]
    ELSE [ok |-> FALSE, events |-> <<>>]

\* the confirmation step of sendConnect: click "Send now" when it is there,
\* whatever is raised is swallowed
confirmSend(dom) ==
    IF waitForElement(dom, "sendNow") /\ Interactable(dom, "sendNow")
    THEN [ok |-> TRUE, events |-> <<Ev("click", "sendNow")>>]
    ELSE [ok |-> TRUE, events |-> <<>>]

\* the opening of doLogin with the cookies loaded before the navigation
LoginOpeningLoadFirst(exists) ==
    (IF exists THEN <<Ev("add_cookie", "jar")>> ELSE <<>>) \o <<Ev("get", "login")>>

\* the opening of doLogin: navigate to the login page, then loadCookies()
LoginOpening(exists) ==
    <<Ev("get", "login")>> \o (IF exists THEN <<Ev("add_cookie", "jar")>> ELSE <<>>)

\* doLogin from the navigation on, s being what ensureStarted left
LoginResult(s, creds, dom, fault) ==
    LET jarNav == Visit(JarOf(s))
        jarLoaded == loadCookies(s.browser, jarNav, file)
        ev1 == StartEvents(s) \o LoginOpening(file.exists)
        form == ActOn(dom, <<"username", "password", "submit">>, <<"fill", "fill", "click">>)
        accepted == form.ok /\ creds \in Accounts
        jarIn == IF accepted THEN add_cookie(jarLoaded, SessionCookie(creds)) ELSE jarLoaded
    IN  IF ~Navigates(s, fault)
        THEN [outcome |-> LoginFailed, jar |-> JarOf(s),
              file |-> savedIf(FALSE, s.browser, JarOf(s), file),
              trace |-> StartEvents(s), page |-> NoPage]
        ELSE IF AuthAs(jarNav) # None
        THEN [outcome |-> Ok("Already logged in"), jar |-> jarLoaded,
              file |-> savedIf(FALSE, s.browser, jarLoaded, file),
              trace |-> ev1, page |-> NoPage]
        ELSE IF ~accepted \/ fault = "save"
        THEN [outcome |-> LoginFailed, jar |-> jarIn,
              file |-> savedIf(FALSE, s.browser, jarIn, file),
              trace |-> ev1 \o form.events, page |-> PageOf(dom)]
        ELSE [outcome |-> Ok("Logged in successfully"), jar |-> jarIn,
              file |-> savedIf(TRUE, s.browser, jarIn, file),
              trace |-> ev1 \o form.events \o <<Ev("save", "file")>>,
              page |-> PageOf(dom)]

\* POST /login
doLogin(creds, dom, fault) ==
    /\ (browser = None /\ fault # "launch") => \E p \in Pids : p \notin live
    /\ \E s \in {ensureStarted(browser, live, fault)} :
       \E r \in {LoginResult(s, creds, dom, fault)} :
        /\ browser' = s.browser
        /\ live' = s.live
        /\ jar' = r.jar
        /\ file' = r.file
        /\ op' = "login"
        /\ outcome' = r.outcome
        /\ trace' = r.trace
        /\ page' = r.page
        /\ located' = "none"
        /\ probe' = "none"
        /\ req' = [creds |-> creds, fault |-> fault]
        /\ loginOk' = (loginOk \/ r.outcome.status = "ok")

\* a session test that starts a browser instead of refusing
requireSessionLazily(b, lv, fault) == ensureStarted(b, lv, fault)

\* sendConnect / checkAndMessage: "if not browser_mgr.browser: raise"
requireSession(b, lv, fault) == [ok |-> b # None, browser |-> b, live |-> lv]

\* sendConnect from the navigation on
ConnectResult(s, dom, fault) ==
    LET jarNav == Visit(JarOf(s))
        btn == findConnectBtn(dom)
        clicked == btn.found /\ Interactable(dom, btn.el)
        ev2 == StartEvents(s) \o <<Ev("get", "profile")>> \o btn.events
                   \o (IF clicked THEN <<Ev("click", btn.el)>> ELSE <<>>)
        confirm == confirmSend(dom)
        ev3 == ev2 \o confirm.events
    IN  IF ~Navigates(s, fault)
        THEN [outcome |-> ConnectFailed, jar |-> JarOf(s),
              file |-> savedIf(FALSE, s.browser, JarOf(s), file),
              trace |-> StartEvents(s), page |-> NoPage, located |-> "none"]
        ELSE IF ~clicked
        THEN [outcome |-> ConnectFailed, jar |-> jarNav,
              file |-> savedIf(FALSE, s.browser, jarNav, file),
              trace |-> ev2, page |-> PageOf(dom),
              located |-> IF btn.found THEN btn.el ELSE "none"]
        ELSE IF ~confirm.ok \/ fault = "save"
        THEN [outcome |-> ConnectFailed, jar |-> jarNav,
              file |-> savedIf(FALSE, s.browser, jarNav, file),
              trace |-> ev3, page |-> PageOf(dom), located |-> btn.el]
        ELSE [outcome |-> Ok("Connection request sent"), jar |-> jarNav,
              file |-> savedIf(TRUE, s.browser, jarNav, file),
              trace |-> ev3 \o <<Ev("save", "file")>>,
              page |-> PageOf(dom), located |-> btn.el]

\* POST /connect
sendConnect(dom, fault) ==
    /\ \E s \in {requireSession(browser, live, fault)} :
       \E r \in {ConnectResult(s, dom, fault)} :
        /\ browser' = s.browser
        /\ live' = s.live
        /\ jar' = r.jar
        /\ file' = r.file
        /\ op' = "connect"
        /\ outcome' = r.outcome
        /\ trace' = r.trace
        /\ page' = r.page
        /\ located' = r.located
        /\ probe' = "none"
        /\ req' = [creds |-> 0, fault |-> fault]
        /\ loginOk' = loginOk

\* checkAndMessage from the navigation on
MessageResult(s, dom, fault) ==
    LET jarNav == Visit(JarOf(s))
        ev1 == StartEvents(s) \o <<Ev("get", "profile")>>
        res == checkIfConnected(dom)
        msg == ActOn(dom, <<"messageBtn", "textbox", "sendBtn">>, <<"click", "type", "click">>)
    IN  IF ~Navigates(s, fault)
        THEN [outcome |-> MessageFailed, jar |-> JarOf(s), trace |-> StartEvents(s),
              page |-> NoPage, probe |-> "none"]
        ELSE IF res.raised
        THEN [outcome |-> MessageFailed, jar |-> jarNav, trace |-> ev1,
              page |-> PageOf(dom), probe |-> "none"]
        ELSE IF ~res.connected
        THEN [outcome |-> Ok("Not connected yet"), jar |-> jarNav, trace |-> ev1,
              page |-> PageOf(dom), probe |-> RelationshipState(res.connected)]
        ELSE [outcome |-> IF msg.ok THEN Ok("Message sent successfully")
                          ELSE MessageFailed,
              jar |-> jarNav, trace |-> ev1 \o msg.events,
              page |-> PageOf(dom), probe |-> RelationshipState(res.connected)]

\* POST /check_connection
checkAndMessage(dom, fault) ==
    /\ \E s \in {requireSession(browser, live, fault)} :
       \E r \in {MessageResult(s, dom, fault)} :
        /\ browser' = s.browser
        /\ live' = s.live
        /\ jar' = r.jar
        /\ file' = file
        /\ op' = "message"
        /\ outcome' = r.outcome
        /\ trace' = r.trace
        /\ page' = r.page
        /\ located' = "none"
        /\ probe' = r.probe
        /\ req' = [creds |-> 0, fault |-> fault]
        /\ loginOk' = loginOk

\* GET /close
closeBrowser(fault, stillRuns) ==
    /\ \E r \in {shutdown(browser, live, jar, file, fault, stillRuns)} :
        /\ browser' = r.browser
        /\ live' = r.live
        /\ jar' = r.jar
        /\ file' = r.file
        /\ op' = "close"
        /\ outcome' = IF r.ok THEN Ok("Browser session closed") ELSE CloseFailed
        /\ trace' = IF browser # None THEN <<Ev("quit", "browser")>> ELSE <<>>
        /\ page' = NoPage
        /\ located' = "none"
        /\ probe' = "none"
        /\ req' = [creds |-> 0, fault |-> fault]
        /\ loginOk' = FALSE

----------------------------------------------------------------------------
(* The service                                                             *)

\* findConnectBtn not called: no wait going on, no tick gone by
NoWait == [stage |-> 0, waited |-> 0, now |-> 0]
\* tasks: the requests received, each with its handler and how far it got;
\* current: the task the loop is running; shown: the task that navigated last
IdleLoop == [tasks |-> <<>>, current |-> 0, shown |-> 0]

Init ==
    /\ loginOk = FALSE
    /\ wait = NoWait
    /\ loop = IdleLoop
    /\ browser = None
    /\ live = {}
    /\ jar = <<>>
    /\ file \in InitialSnapshots
    /\ op = "none"
    /\ outcome = NoOutcome
    /\ trace = <<>>
    /\ page = NoPage
    /\ located = "none"
    /\ probe = "none"
    /\ req = NoReq

\* the pages a call can be shown; which one is immaterial when it loads none
Shown(views, loads) == IF loads THEN views ELSE {CHOOSE v \in views : TRUE}

Login ==
    \E c \in Creds, f \in LoginFaults :
        \E dom \in Shown(LoginViews, f \in {"none", "save"}
                                     /\ (browser = None \/ browser \in live)) :
            doLogin(c, dom, f) /\ UNCHANGED <<wait, loop>>

Connect ==
    \E f \in ConnectFaults :
        \E dom \in Shown(ConnectViews, f # "get" /\ browser \in live) :
            sendConnect(dom, f) /\ UNCHANGED <<wait, loop>>

ProbeAndMessage ==
    \E f \in MessageFaults :
        \E dom \in Shown(MessageViews, f # "get" /\ browser \in live) :
            checkAndMessage(dom, f) /\ UNCHANGED <<wait, loop>>

Close ==
    \E f \in CloseFaults, stillRuns \in BOOLEAN :
        closeBrowser(f, stillRuns) /\ UNCHANGED <<wait, loop>>

Next == Login \/ Connect \/ ProbeAndMessage \/ Close

Spec == Init /\ [][Next]_vars

----------------------------------------------------------------------------
(* The locator and the probe on their own, over every page                 *)

Idle ==
    /\ loginOk = FALSE
    /\ wait = NoWait
    /\ loop = IdleLoop
    /\ browser = None
    /\ live = {}
    /\ jar = <<>>
    /\ file = NoFile
    /\ op = "none"
    /\ outcome = NoOutcome
    /\ trace = <<>>
    /\ located = "none"
    /\ probe = "none"
    /\ req = NoReq

LocateInit == Idle /\ page \in {PageOf(d) : d \in ConnectPages}

\* one call of findConnectBtn on the page
LocateConnect ==
    /\ op = "none"
    /\ \E btn \in {findConnectBtn(page)} :
        /\ op' = "findConnectBtn"
        /\ located' = btn.el
        /\ trace' = btn.events
        /\ outcome' = IF btn.found THEN Ok("element")
                      ELSE Failed(404, "Connect button not found")
    /\ UNCHANGED <<browser, live, jar, file, page, probe, req, loginOk, wait, loop>>

LocateNext == LocateConnect

SpecLocate == LocateInit /\ [][LocateNext]_vars

ProbeInit == Idle /\ page \in {PageOf(d) : d \in MessagePages}

\* one call of checkIfConnected on the page
ProbePage ==
    /\ op = "none"
    /\ \E res \in {checkIfConnected(page)} :
        /\ op' = "checkIfConnected"
        /\ probe' = IF res.raised THEN "none" ELSE RelationshipState(res.connected)
        /\ outcome' = IF res.raised THEN Failed(404, "Element not found")
                      ELSE Ok("returned")
    /\ UNCHANGED <<browser, live, jar, file, page, trace, located, req, loginOk, wait, loop>>

ProbeNext == ProbePage

SpecProbe == ProbeInit /\ [][ProbeNext]_vars

\* the handlers as uvicorn's single event loop runs them
LoopInit == Idle /\ page = NoPage

TaskKinds == {"login", "connect", "message", "close"}

\* the places where a handler hands control back before it returns, if the
\* handlers awaited at their browser calls
AwaitPointsAtDriverCalls == {"navigated"}

\* the places where a handler hands control back to the loop before it
\* returns: the bodies hold no await, every driver call blocks
AwaitPoints == {}

\* where a handler can get next: the navigation, the reads and actions on
\* the page, the return (at once when it raises); Close never navigates
NextPcs(t) ==
    IF t.pc = "start"
    THEN IF t.kind = "close" THEN {"acted"} ELSE {"navigated", "done"}
    ELSE IF t.pc = "navigated" THEN {"acted", "done"}
    ELSE {"done"}

\* a request comes in: its handler is a task of the loop, not yet begun
Arrive ==
    /\ Len(loop.tasks) < MaxRequests
    /\ \E k \in TaskKinds :
        loop' = [loop EXCEPT !.tasks = Append(@, [kind |-> k, pc |-> "start"])]
    /\ UNCHANGED <<browser, live, jar, file, op, outcome, trace, page, located, probe,
                   req, loginOk, wait>>

\* the loop, running nothing, takes a task that has not begun or that waits
Schedule ==
    /\ loop.current = 0
    /\ \E i \in 1..Len(loop.tasks) :
        /\ loop.tasks[i].pc \in {"start"} \cup AwaitPoints
        /\ loop' = [loop EXCEPT !.current = i]
    /\ UNCHANGED <<browser, live, jar, file, op, outcome, trace, page, located, probe,
                   req, loginOk, wait>>

\* the running handler gets on to its next place; it leaves the loop when
\* it returns or awaits
Run ==
    /\ loop.current # 0
    /\ \E pc \in NextPcs(loop.tasks[loop.current]) :
        loop' = [tasks |-> [loop.tasks EXCEPT ![loop.current].pc = pc],
                 current |-> IF pc = "done" \/ pc \in AwaitPoints THEN 0 ELSE loop.current,
                 shown |-> IF pc = "navigated" THEN loop.current ELSE loop.shown]
    /\ UNCHANGED <<browser, live, jar, file, op, outcome, trace, page, located, probe,
                   req, loginOk, wait>>

LoopNext == Arrive \/ Schedule \/ Run

SpecLoop == LoopInit /\ [][LoopNext]_vars

\* findConnectBtn poll by poll; time is counted in polls of WebDriverWait
timeout == 10          \* seconds, the default of waitForElement
PollsPerSecond == 2    \* WebDriverWait polls every 0.5 s unless told otherwise
MenuSleep == 1         \* seconds slept after the click on "More actions"
PollTicks == timeout * PollsPerSecond

WaitSelectors == possible_selectors \o <<"moreActions", "dropdownConnect">>
Returned == Len(WaitSelectors) + 1

\* WebDriverWait.until without its loop: one find_element
ExpiredAtOnce(waited) == TRUE

\* WebDriverWait.until gives up after a sleep that left the clock past the
\* end time: after PollTicks sleeps, or one more when the clock stood
\* exactly at the end time
Expired(waited) == waited >= PollTicks

WaitInit == Idle /\ page \in {PageOf(d) : d \in ConnectPages}

\* findConnectBtn is called
WaitBegin ==
    /\ op = "none"
    /\ op' = "findConnectBtn"
    /\ wait' = [stage |-> 1, waited |-> 0, now |-> 0]
    /\ UNCHANGED <<browser, live, jar, file, outcome, trace, page, located, probe, req,
                   loginOk, loop>>

\* the element is not there and the wait sleeps for one poll
WaitTick ==
    /\ wait.stage \in 1..Len(WaitSelectors)
    /\ ~waitForElement(page, WaitSelectors[wait.stage])
    /\ wait.waited <= PollTicks
    /\ wait' = [wait EXCEPT !.waited = @ + 1, !.now = @ + 1]
    /\ UNCHANGED <<browser, live, jar, file, op, outcome, trace, page, located, probe,
                   req, loginOk, loop>>

\* the wait gives up: a direct strategy is skipped, the fallback fails
WaitExpire ==
    /\ wait.stage \in 1..Len(WaitSelectors)
    /\ ~waitForElement(page, WaitSelectors[wait.stage])
    /\ Expired(wait.waited)
    /\ IF wait.stage < Len(possible_selectors) + 1
       THEN /\ wait' = [wait EXCEPT !.stage = @ + 1, !.waited = 0]
            /\ UNCHANGED outcome
       ELSE /\ wait' = [wait EXCEPT !.stage = Returned]
            /\ outcome' = Failed(404, "Connect button not found")
    /\ UNCHANGED <<browser, live, jar, file, op, trace, page, located, probe, req,
                   loginOk, loop>>

\* the element is there at the first poll of the wait
WaitFound ==
    /\ wait.stage \in 1..Len(WaitSelectors)
    /\ waitForElement(page, WaitSelectors[wait.stage])
    /\ \E sel \in {WaitSelectors[wait.stage]} :
        IF wait.stage <= Len(possible_selectors)
        THEN IF page[sel] = "visible"
             THEN /\ wait' = [wait EXCEPT !.stage = Returned]
                  /\ located' = sel
                  /\ outcome' = Ok("element")
                  /\ UNCHANGED trace
             ELSE /\ wait' = [wait EXCEPT !.stage = @ + 1, !.waited = 0]
                  /\ UNCHANGED <<located, outcome, trace>>
        ELSE IF sel = "moreActions"
        THEN IF Interactable(page, sel)
             THEN /\ wait' = [stage |-> wait.stage + 1, waited |-> 0,
                              now |-> wait.now + MenuSleep * PollsPerSecond]
                  /\ trace' = Append(trace, Ev("click", sel))
                  /\ UNCHANGED <<located, outcome>>
             ELSE /\ wait' = [wait EXCEPT !.stage = Returned]
                  /\ outcome' = Failed(404, "Connect button not found")
                  /\ UNCHANGED <<located, trace>>
        ELSE /\ wait' = [wait EXCEPT !.stage = Returned]
             /\ located' = sel
             /\ outcome' = Ok("element")
             /\ UNCHANGED trace
    /\ UNCHANGED <<browser, live, jar, file, op, page, probe, req, loginOk, loop>>

WaitNext == WaitBegin \/ WaitTick \/ WaitExpire \/ WaitFound

SpecWait == WaitInit /\ [][WaitNext]_vars

\* saveCookies and loadCookies on their own: a browser with any cookies,
\* cookies.json absent or left by any earlier save
StoreInit ==
    /\ loginOk = FALSE
    /\ wait = NoWait
    /\ loop = IdleLoop
    /\ browser = FreshPid({})
    /\ live = {browser}
    /\ jar \in Jars
    /\ file \in {NoFile} \cup {FileOf(cs) : cs \in Jars}
    /\ op = "none"
    /\ outcome = NoOutcome
    /\ trace = <<>>
    /\ page = NoPage
    /\ located = "none"
    /\ probe = "none"
    /\ req = NoReq

\* one call of saveCookies
StoreSave ==
    /\ op = "none"
    /\ op' = "saveCookies"
    /\ file' = saveCookies(browser, jar, file)
    /\ trace' = <<Ev("save", "file")>>
    /\ UNCHANGED <<browser, live, jar, outcome, page, located, probe, req, loginOk, wait, loop>>

\* the handle passes to a new browser, which has loaded the login page
\* and holds no cookie yet
StoreFresh ==
    /\ op = "saveCookies"
    /\ \E p \in Pids : p \notin live
    /\ \E s \in {startBrowser(None, live, "none")} :
        /\ browser' = s.browser
        /\ live' = s.live \ {browser}
    /\ op' = "fresh"
    /\ jar' = <<>>
    /\ trace' = <<Ev("start", "browser"), Ev("get", "login")>>
    /\ UNCHANGED <<file, outcome, page, located, probe, req, loginOk, wait, loop>>

\* one call of loadCookies in the new browser
StoreLoad ==
    /\ op = "fresh"
    /\ op' = "loadCookies"
    /\ jar' = loadCookies(browser, jar, file)
    /\ trace' = trace \o <<Ev("add_cookie", "jar")>>
    /\ UNCHANGED <<browser, live, file, outcome, page, located, probe, req, loginOk, wait, loop>>

StoreNext == StoreSave \/ StoreFresh \/ StoreLoad

SpecStore == StoreInit /\ [][StoreNext]_vars

----------------------------------------------------------------------------
(* Properties                                                              *)

Events(tr) == {tr[i] : i \in 1..Len(tr)}
Started == Ev("start", "browser")
ComposeSelectors == {"messageBtn", "textbox", "sendBtn"}
ConnectActions == ConnectSelectors \cup {"moreActions", "dropdownConnect", "sendNow"}

\* C1: at most one browser process is live and a live one is the one the
\* handle refers to; a Login that finds a handle keeps it and starts nothing
OneLiveBrowser == Cardinality(live) <= 1 /\ \A p \in live : browser = p
LoginReusesHandle ==
    (browser # None /\ op' = "login") => (browser' = browser /\ live' \subseteq live)
C1_SingleBrowser == []OneLiveBrowser /\ [][LoginReusesHandle]_vars

\* a Login that found a handle, navigated with it and started no process
C1_Witness ==
    /\ op = "login"
    /\ Ev("get", "login") \in Events(trace)
    /\ Started \notin Events(trace)
    /\ live = {browser}

\* C2: after a Close that returned "Browser session closed" no handle is
\* held and no snapshot file exists
C2_CloseLeavesNothing ==
    (op = "close" /\ outcome = Ok("Browser session closed"))
        => (browser = None /\ ~file.exists)

\* C3: a Login that finds a valid snapshot file navigates to the login page,
\* loads the snapshot and returns "Already logged in" without filling or
\* submitting the form
LoginWithValidSnapshot ==
    (file.exists /\ AuthAs(file.cookies) # None
        /\ op' = "login" /\ req'.fault = "none")
    => /\ outcome' = Ok("Already logged in")
       /\ Ev("get", "login") \in Events(trace')
       /\ Ev("add_cookie", "jar") \in Events(trace')
       /\ \A e \in Events(trace') : e.act \notin {"fill", "click"}
C3_SnapshotSkipsForm == [][LoginWithValidSnapshot]_vars

\* C4: when some direct strategy matches a visible element, findConnectBtn
\* returns the element of the first such strategy in priority order
C4_HighestPriority ==
    op = "findConnectBtn" =>
        \A i \in 1..Len(possible_selectors) :
            (/\ page[possible_selectors[i]] = "visible"
             /\ \A j \in 1..(i - 1) : page[possible_selectors[j]] # "visible")
            => located = possible_selectors[i]

\* the second strategy returned while the third is satisfiable too and the
\* first matches a hidden element
C4_Witness ==
    /\ op = "findConnectBtn"
    /\ page["invite"] = "hidden"
    /\ page["connectText"] = "visible"
    /\ page["connectClass"] = "visible"
    /\ located = "connectText"

\* C5: every element findConnectBtn returns is present and visible, on the
\* direct path and on the menu path
C5_ReturnedIsVisible ==
    (op = "findConnectBtn" /\ located # "none") => page[located] = "visible"

\* C6: checkIfConnected reports Connected only if one of its three
\* indicators is visible on the page
C6_ConnectedOnlyIfVisible ==
    (op = "checkIfConnected" /\ probe = "Connected")
        => \E i \in 1..Len(indicators) : page[indicators[i]] = "visible"

\* C7: checkAndMessage touches the message button, the compose box or the
\* send button only if checkIfConnected returned Connected in that call; on
\* a page with none of the three indicators it returns ok "Not connected
\* yet" and touches neither the compose elements nor any connect action
C7_MessageOnlyIfConnected ==
    op = "message" =>
        /\ (\E e \in Events(trace) : e.on \in ComposeSelectors) => probe = "Connected"
        /\ (\A i \in 1..Len(indicators) : page[indicators[i]] = "absent")
            => /\ outcome = Ok("Not connected yet")
               /\ \A e \in Events(trace) : e.on \notin ComposeSelectors \cup ConnectActions

\* a checkAndMessage call on a loaded page with none of the indicators
C7_Witness ==
    /\ op = "message"
    /\ \A i \in 1..Len(indicators) : page[indicators[i]] = "absent"
    /\ Ev("get", "profile") \in Events(trace)
    /\ outcome = Ok("Not connected yet")

\* C8: when none of the three indicators is found, checkIfConnected returns
\* NotConnected and raises nothing
C8_ProbeDefaultsToNotConnected ==
    (op = "checkIfConnected"
        /\ \A i \in 1..Len(indicators) : page[indicators[i]] = "absent")
    => (probe = "NotConnected" /\ outcome.status = "ok")

C8_Witness ==
    /\ op = "checkIfConnected"
    /\ \A i \in 1..Len(indicators) : page[indicators[i]] = "absent"
    /\ probe = "NotConnected"

\* C9: a Login without handle and without snapshot file, with accepted
\* credentials, a usable login form and nothing failing outside, fills and
\* submits the form, returns "Logged in successfully" and leaves the
\* snapshot file holding the browser's cookies
FormUsable(pg) == \A sel \in LoginSelectors : pg[sel] = "visible"
FreshLogin ==
    (browser = None /\ ~file.exists
        /\ op' = "login" /\ req'.creds \in Accounts /\ req'.fault = "none"
        /\ FormUsable(page'))
    => /\ outcome' = Ok("Logged in successfully")
       /\ \E i, j, k \in 1..Len(trace') :
            /\ i < j /\ j < k
            /\ trace'[i] = Ev("fill", "username")
            /\ trace'[j] = Ev("fill", "password")
            /\ trace'[k] = Ev("click", "submit")
       /\ file'.exists
       /\ file'.cookies = jar'
       /\ AuthAs(file'.cookies) = req'.creds
C9_FreshLoginSaves == [][FreshLogin]_vars

\* a first Login that started the browser, found no snapshot and succeeded
C9_Witness ==
    /\ op = "login"
    /\ outcome = Ok("Logged in successfully")
    /\ Started \in Events(trace)
    /\ Ev("add_cookie", "jar") \notin Events(trace)
    /\ Ev("click", "submit") \in Events(trace)
    /\ file.exists

\* C10: Connect and Probe-and-Message without a handle fail, start no
\* browser, navigate nowhere and leave the snapshot file as it was
NoSessionNoEffect ==
    (browser = None /\ op' \in {"connect", "message"})
    => /\ outcome'.status = "failed"
       /\ browser' = None
       /\ live' = live
       /\ trace' = <<>>
       /\ file' = file
       /\ jar' = jar
C10_NoSessionFails == [][NoSessionNoEffect]_vars

\* a Connect refused for want of a handle, the snapshot file still there
C10_Witness ==
    /\ op = "connect"
    /\ browser = None
    /\ outcome = ConnectFailed
    /\ trace = <<>>
    /\ file.exists

\* C11: sendConnect opens the "More actions" menu only when none of the
\* three direct strategies gave a displayed element; a page that shows the
\* connect action in that menu only gets "Connection request sent", the
\* menu entry clicked after the menu; a page where neither tier gives the
\* action gets a failed outcome and no click on a connect action
DirectFails(pg) ==
    \A i \in 1..Len(possible_selectors) : pg[possible_selectors[i]] \in {"absent", "hidden"}
MenuOnly(pg) ==
    DirectFails(pg) /\ pg["moreActions"] = "visible" /\ pg["dropdownConnect"] = "visible"
NeitherTier(pg) ==
    DirectFails(pg) /\ (pg["moreActions"] \in {"absent", "hidden"}
                        \/ pg["dropdownConnect"] = "absent")
C11_MenuIsFallback ==
    op = "connect" =>
        /\ Ev("click", "moreActions") \in Events(trace) => DirectFails(page)
        /\ (MenuOnly(page) /\ req.fault = "none")
            => /\ outcome = Ok("Connection request sent")
               /\ \E i, j \in 1..Len(trace) :
                    /\ i < j
                    /\ trace[i] = Ev("click", "moreActions")
                    /\ trace[j] = Ev("click", "dropdownConnect")
        /\ NeitherTier(page)
            => /\ outcome.status = "failed"
               /\ \A e \in Events(trace) :
                    e.act = "click" => e.on \notin ConnectSelectors \cup {"dropdownConnect", "sendNow"}

\* a Connect that succeeded through the menu
C11_Witness ==
    /\ op = "connect"
    /\ MenuOnly(page)
    /\ located = "dropdownConnect"
    /\ outcome = Ok("Connection request sent")

\* C12: once the connect action was located and clicked, sendConnect
\* returns ok whatever "Send now" does, if nothing fails outside the page;
\* when the connect action is not located the call fails
ConnectClicked == located # "none" /\ Ev("click", located) \in Events(trace)
C12_ConfirmationOptional ==
    op = "connect" =>
        /\ (ConnectClicked /\ req.fault = "none") => outcome = Ok("Connection request sent")
        /\ (located = "none") => outcome.status = "failed"

\* a Connect that succeeded although "Send now" was there and not clickable
C12_Witness ==
    /\ op = "connect"
    /\ ConnectClicked
    /\ page["sendNow"] = "hidden"
    /\ Ev("click", "sendNow") \notin Events(trace)
    /\ outcome = Ok("Connection request sent")

\* C14: a snapshot taken while authenticated as one account is not injected
\* by a Login made with another account's credentials, and such a Login
\* does not return ok with the session authenticated as the first account
OtherAccountLogin ==
    /\ file.exists
    /\ AuthAs(file.cookies) \in Accounts
    /\ op' = "login"
    /\ req'.creds \in Accounts
    /\ req'.creds # AuthAs(file.cookies)
SnapshotStaysWithAccount ==
    OtherAccountLogin
    => /\ Ev("add_cookie", "jar") \notin Events(trace')
       /\ ~(outcome'.status = "ok" /\ AuthAs(jar') = AuthAs(file.cookies))
C14_SnapshotScopedToAccount == [][SnapshotStaysWithAccount]_vars

\* C17: in every Login the cookies of the snapshot are added only after the
\* navigation to the login page of the same call; without a snapshot file
\* nothing is added and the Login goes on to the credential form (or finds
\* the browser already authenticated), succeeding when the form is usable
\* and the credentials are valid
InjectedAfterNavigation ==
    op = "login" =>
        \A j \in 1..Len(trace) :
            trace[j].act = "add_cookie"
            => \E i \in 1..(j - 1) : trace[i] = Ev("get", "login")
MissingSnapshotTolerated ==
    (~file.exists /\ op' = "login" /\ Ev("get", "login") \in Events(trace'))
    => /\ Ev("add_cookie", "jar") \notin Events(trace')
       /\ outcome' = Ok("Already logged in") \/ page' # NoPage
       /\ (page' # NoPage /\ FormUsable(page') /\ req'.creds \in Accounts
             /\ req'.fault = "none")
          => outcome' = Ok("Logged in successfully")
C17_LoadAfterNavigation == []InjectedAfterNavigation /\ [][MissingSnapshotTolerated]_vars

\* a Login that navigated and then added the cookies of the snapshot
C17_Witness ==
    /\ op = "login"
    /\ \E i, j \in 1..Len(trace) :
         i < j /\ trace[i] = Ev("get", "login") /\ trace[j] = Ev("add_cookie", "jar")

\* C18: Connect and Probe-and-Message return ok only when some Login
\* returned ok since the last Close (or since the process started)
C18_OkOnlyAfterLogin ==
    (op \in {"connect", "message"} /\ outcome.status = "ok") => loginOk

\* C19: a startBrowser that fails, at the launch or at the injection of the
\* start-up script, leaves no browser handle
FailedStartKeepsNothing ==
    (browser = None /\ op' = "login" /\ req'.fault \in {"launch", "cdp"})
    => (outcome'.status = "failed" /\ browser' = None)
C19_FailedStartNoHandle == [][FailedStartKeepsNothing]_vars

\* C20: the snapshot file is written only as the last step of a Login that
\* submitted the form and reached the authenticated area and of a Connect
\* that returns ok; a failed call, a Probe-and-Message and an "Already
\* logged in" Login leave the file as it was
SavedLast(tr) == Len(tr) > 0 /\ tr[Len(tr)] = Ev("save", "file")
WrittenOnlyOnSuccess ==
    /\ (file' # file /\ file'.exists)
       => \/ /\ op' = "login"
             /\ outcome' = Ok("Logged in successfully")
             /\ Ev("click", "submit") \in Events(trace')
             /\ SavedLast(trace')
             /\ file'.cookies = jar'
          \/ /\ op' = "connect"
             /\ outcome' = Ok("Connection request sent")
             /\ SavedLast(trace')
             /\ file'.cookies = jar'
    /\ (outcome'.status = "failed" \/ op' = "message" \/ outcome' = Ok("Already logged in"))
       => file' = file
CookieSet(cs) == {cs[i] : i \in 1..Len(cs)}
SaveReplaces == op' = "saveCookies" => file' = FileOf(jar)
FreshKeepsFile == op' = "fresh" => (file' = file /\ jar' = <<>>)
LoadRestores ==
    op' = "loadCookies"
    => /\ file' = file
       /\ CookieSet(jar') = CookieSet(file.cookies)
       /\ Len(jar') = Len(file.cookies)
C15_SaveLoadRoundTrip == [][SaveReplaces /\ FreshKeepsFile /\ LoadRestores]_vars

\* a new browser that was given the two cookies of an authenticated one
C15_Witness ==
    /\ op = "loadCookies"
    /\ Len(jar) = 2
    /\ AuthAs(jar) # None
    /\ file = FileOf(jar)

\* C13: at most one handler is begun and not returned at any time, and
\* from a handler's navigation until it returns the page in the browser is
\* the one it navigated to: no other handler navigates in between
InFlight(i) == loop.current = i \/ loop.tasks[i].pc \notin {"start", "done"}
C13_OneOperationAtATime ==
    /\ Cardinality({i \in 1..Len(loop.tasks) : InFlight(i)}) <= 1
    /\ \A i \in 1..Len(loop.tasks) :
         (loop.tasks[i].kind # "close" /\ loop.tasks[i].pc \in {"navigated", "acted"})
         => loop.shown = i

\* a handler between its navigation and its reads while another request,
\* received before it, waits and a third has navigated and returned
C13_Witness ==
    \E i, j, k \in 1..Len(loop.tasks) :
        /\ j < i
        /\ loop.tasks[i].pc = "navigated"
        /\ loop.tasks[j].pc = "start"
        /\ loop.tasks[k].pc = "done"
        /\ loop.shown = i

\* C16 as stated: findConnectBtn on a page where no strategy can succeed
\* reports "not found" no earlier than one timeout and no later than one
\* timeout and one poll after it was called
NotFoundReported == wait.stage = Returned /\ outcome.status = "failed"
C16_NotFoundWithinOneTimeout ==
    NotFoundReported => (PollTicks <= wait.now /\ wait.now <= PollTicks + 1)

\* C16: every single wait gives up no earlier than the timeout and no later
\* than one poll after it; findConnectBtn reports "not found" after as many
\* such waits as it tried selectors that match nothing (four when no
\* selector matches anything), a match that is not displayed costing no
\* wait, plus the sleep after the click when it opened the menu; what it
\* returns is what the untimed findConnectBtn returns
Unmatched(pg) ==
    {i \in 1..Len(possible_selectors) : pg[possible_selectors[i]] = "absent"}
MenuOpened(pg) == DirectFrom(pg, 1) = "none" /\ pg["moreActions"] = "visible"
TimedOutWaits(pg) ==
    Cardinality(Unmatched(pg))
    + (IF pg["moreActions"] = "absent" THEN 1 ELSE 0)
    + (IF MenuOpened(pg) /\ pg["dropdownConnect"] = "absent" THEN 1 ELSE 0)
SleptTicks(pg) == IF MenuOpened(pg) THEN MenuSleep * PollsPerSecond ELSE 0
C16_NotFoundAfterEveryTimeout ==
    /\ wait.waited <= PollTicks + 1
    /\ NotFoundReported
       => /\ TimedOutWaits(page) * PollTicks + SleptTicks(page) <= wait.now
          /\ wait.now <= TimedOutWaits(page) * (PollTicks + 1) + SleptTicks(page)
    /\ (NotFoundReported /\ \A i \in 1..(Returned - 1) : page[WaitSelectors[i]] = "absent")
       => /\ Len(possible_selectors) * PollTicks + PollTicks <= wait.now
          /\ wait.now <= (Len(possible_selectors) + 1) * (PollTicks + 1)
    /\ wait.stage = Returned
       => /\ findConnectBtn(page).found = (outcome.status = "ok")
          /\ findConnectBtn(page).el = located
          /\ findConnectBtn(page).events = trace

\* "not found" on a page where no selector matches, long after one timeout
C16_Witness ==
    /\ NotFoundReported
    /\ \A i \in 1..(Returned - 1) : page[WaitSelectors[i]] = "absent"
    /\ wait.now > PollTicks + 1

====
